---- MODULE Spec2Model ----
(***************************************************************************)
(* Model of scripts/train.py: the training script of the COVID-19 chest    *)
(* X-ray classifier.  main() is a linear sequence of statements; each      *)
(* statement that can raise or that changes the filesystem is one action,  *)
(* and pc is the position of the interpreter in main().                    *)
(*                                                                         *)
(* Arithmetic of get_class_weights is modelled exactly, on normalised      *)
(* rationals: the rounding of the IEEE doubles Python computes with is not *)
(* represented.                                                            *)
(***************************************************************************)
EXTENDS Integers, Sequences, FiniteSets, TLC

VARIABLES
    pc,             \* position in main(), or in the get_class_weights harness
    run,            \* number of the current invocation of the script
    args,           \* parsed command line: [class_weights : BOOLEAN]
    fs,             \* the filesystem at and below the `model` path
    fs_start,       \* fs as it was when the current invocation started
    error,          \* the exception that ended the invocation, or Unset
    log,            \* calls made by the current invocation, in order
    train_ds,       \* main: train_ds
    val_ds,         \* main: val_ds
    n_classes,      \* main: n_classes
    covid19_label,  \* main: covid19_label
    class_weights,  \* main: class_weights
    gcw_calls,      \* number of calls of get_class_weights in this invocation
    model,          \* main: model (its weights)
    fit_args,       \* arguments fit_classifier was called with
    ft_args,        \* arguments fine_tune was called with
    cur,            \* History.epoch of the training loop that is running
    history,        \* main: history
    history_ft,     \* main: history_ft
    prev_error      \* the exception that ended the previous invocation, or Unset

vars == <<pc, run, args, fs, fs_start, error, log, train_ds, val_ds, n_classes,
          covid19_label, class_weights, gcw_calls, model, fit_args, ft_args,
          cur, history, history_ft, prev_error>>

(* ------------------------------ bounds --------------------------------- *)

MaxSamples == 2

MaxValSamples == 1

MaxRuns == 2

MaxUnitSamples == 10

(* ------------------------- training settings --------------------------- *)

EPOCHS == 20

EPOCHS_FT == 10

PATIENCE == 5

Unset == [tag |-> "unset"]

PyNone == [tag |-> "None"]

(* ------------------------------ rationals ------------------------------ *)

RECURSIVE GCD(_, _)
GCD(a, b) == IF b = 0 THEN a ELSE GCD(b, a % b)

Rat(a, b) == LET g == GCD(a, b) IN [num |-> a \div g, den |-> b \div g]

RatMul(p, q) == Rat(p.num * q.num, p.den * q.den)

RatLeq(p, q) == p.num * q.den <= q.num * p.den

RatAdd(p, q) == Rat(p.num * q.den + q.num * p.den, p.den * q.den)

(* ------------------------------ datasets ------------------------------- *)

ClassNames == <<"covid-19", "normal", "pneumonia">>

ClassIndices(S) ==
    [name \in {ClassNames[i] : i \in S} |->
        LET i == CHOOSE j \in S : ClassNames[j] = name
        IN  Cardinality({j \in S : j < i})]

SortedLabels(k, max) ==
    UNION {{s \in [1..n -> 0..(k - 1)] : \A i \in 1..(n - 1) : s[i] <= s[i + 1]}
           : n \in 0..max}

image_dataset_from_directory(S, max) ==
    {[class_indices |-> ClassIndices(S), classes |-> c]
        : c \in SortedLabels(Cardinality(S), max)}

TrainDatasets == UNION {image_dataset_from_directory(S, MaxSamples)
                            : S \in SUBSET (1..Len(ClassNames))}

UnitDatasets == UNION {image_dataset_from_directory(S, MaxUnitSamples)
                           : S \in SUBSET (1..Len(ClassNames))}

ValDatasets(train) ==
    {[class_indices |-> train.class_indices, classes |-> c]
        : c \in SortedLabels(Cardinality(DOMAIN train.class_indices), MaxValSamples)}

(* -------------------------- get_class_weights -------------------------- *)

ZeroDivisionError == "ZeroDivisionError"

Returned(v) == [raised |-> FALSE, value |-> v]

Raised(exc) == [raised |-> TRUE, value |-> exc]

Labels(ds) == {ds.class_indices[name] : name \in DOMAIN ds.class_indices}

Total(ds) == Len(ds.classes)

NClasses(ds) == Cardinality(DOMAIN ds.class_indices)

CountOf(ds, class_label) ==
    Cardinality({i \in DOMAIN ds.classes : ds.classes[i] = class_label})

ClassWeight_NoClassCount(n, total, k) == RatMul(Rat(1, n), Rat(total, 1))

ClassWeight_Proportional(n, total, k) == RatMul(Rat(n, 1), Rat(total, k))

ClassWeight_Smoothed(n, total, k) == RatMul(Rat(1, n + 1), Rat(total, k))

ClassWeight(n, total, k) == RatMul(Rat(1, n), Rat(total, k))

RECURSIVE gcw_loop(_, _, _)
gcw_loop(ds, class_label, acc) ==
    IF class_label >= NClasses(ds) THEN Returned(acc)
    ELSE LET n == CountOf(ds, class_label)
         IN  IF n = 0 THEN Raised(ZeroDivisionError)
             ELSE gcw_loop(ds, class_label + 1,
                           acc @@ (class_label :> ClassWeight(n, Total(ds), NClasses(ds))))

get_class_weights_skip_empty(ds) ==
    Returned([l \in {c \in Labels(ds) : CountOf(ds, c) > 0} |->
                ClassWeight(CountOf(ds, l), Total(ds), NClasses(ds))])

get_class_weights(ds) == gcw_loop(ds, 0, <<>>)

(* ----------------------------- filesystem ------------------------------ *)

PathKinds == {"absent", "dir", "file", "link_dir", "link_broken"}

EmptyFs(kind, parent) ==
    [kind |-> kind, parent |-> parent, entries |-> {}, ckpt |-> <<>>,
     saved |-> <<>>, plots |-> FALSE]

InitialFs ==
    {EmptyFs("absent", p) : p \in BOOLEAN}
        \cup {EmptyFs(k, TRUE) : k \in PathKinds \ {"absent"}}

is_file(kind) == kind = "file"

is_dir(kind) == kind \in {"dir", "link_dir"}

mkdir_raises_on_dir_only(kind) == kind \in {"dir", "link_dir"}

mkdir_raises(kind) == kind # "absent"

WriteFile(files, name, content) ==
    [x \in DOMAIN files \cup {name} |-> IF x = name THEN content ELSE files[x]]

CheckpointName(epoch) == <<(epoch + 1) \div 10, (epoch + 1) % 10>>

(* ------------------------------- main() -------------------------------- *)

dsVars == <<train_ds, val_ds, n_classes, covid19_label>>

cwVars == <<class_weights, gcw_calls>>

trainVars == <<model, fit_args, ft_args, cur, history, history_ft>>

envVars == <<run, args, fs_start, prev_error>>

FreshRun ==
    /\ error = Unset
    /\ log = <<>>
    /\ train_ds = Unset
    /\ val_ds = Unset
    /\ n_classes = Unset
    /\ covid19_label = Unset
    /\ class_weights = Unset
    /\ gcw_calls = 0
    /\ model = Unset
    /\ fit_args = Unset
    /\ ft_args = Unset
    /\ cur = <<>>
    /\ history = Unset
    /\ history_ft = Unset

Init ==
    /\ pc = "check"
    /\ run = 1
    /\ args \in [class_weights : BOOLEAN]
    /\ fs \in InitialFs
    /\ fs_start = fs
    /\ prev_error = Unset
    /\ FreshRun

Raise(type, line) ==
    /\ pc' = "failed"
    /\ error' = [type |-> type, line |-> line]

Call(name) == log' = Append(log, name)

CheckExists ==
    /\ pc = "check"
    /\ IF is_dir(fs.kind)
         THEN Raise("FileExistsError", 77)
         ELSE pc' = "mkdir" /\ UNCHANGED error
    /\ UNCHANGED <<envVars, fs, log, dsVars, cwVars, trainVars>>

MkdirModel ==
    /\ pc = "mkdir"
    /\ IF mkdir_raises(fs.kind)
         THEN Raise("FileExistsError", 78) /\ UNCHANGED <<fs, log>>
         ELSE /\ fs' = [fs EXCEPT !.kind = "dir", !.parent = TRUE]
              /\ Call("mkdir")
              /\ pc' = "mkdir_sub"
              /\ UNCHANGED error
    /\ UNCHANGED <<envVars, dsVars, cwVars, trainVars>>

MkdirSub_CheckpointsOnly ==
    /\ pc = "mkdir_sub"
    /\ fs' = [fs EXCEPT !.entries = @ \cup {"checkpoints"}]
    /\ Call("mkdir_sub")
    /\ pc' = "load_train"
    /\ UNCHANGED <<envVars, error, dsVars, cwVars, trainVars>>

MkdirSub ==
    /\ pc = "mkdir_sub"
    /\ fs' = [fs EXCEPT !.entries = @ \cup {"checkpoints", "training"}]
    /\ Call("mkdir_sub")
    /\ pc' = "load_train"
    /\ UNCHANGED <<envVars, error, dsVars, cwVars, trainVars>>

LoadTrain ==
    /\ pc = "load_train"
    /\ Call("load_train")
    /\ \/ \E ds \in TrainDatasets :
            /\ train_ds' = ds
            /\ pc' = "load_val"
            /\ UNCHANGED error
       \/ Raise("FileNotFoundError", 88) /\ UNCHANGED train_ds
    /\ UNCHANGED <<envVars, fs, val_ds, n_classes, covid19_label, cwVars, trainVars>>

LoadVal ==
    /\ pc = "load_val"
    /\ Call("load_val")
    /\ \/ \E ds \in ValDatasets(train_ds) :
            /\ val_ds' = ds
            /\ pc' = "lookup"
            /\ UNCHANGED error
       \/ Raise("FileNotFoundError", 89) /\ UNCHANGED val_ds
    /\ UNCHANGED <<envVars, fs, train_ds, n_classes, covid19_label, cwVars, trainVars>>

Lookup ==
    /\ pc = "lookup"
    /\ n_classes' = NClasses(train_ds)
    /\ IF "covid-19" \in DOMAIN train_ds.class_indices
         THEN /\ covid19_label' = train_ds.class_indices["covid-19"]
              /\ pc' = "class_weights"
              /\ UNCHANGED error
         ELSE Raise("KeyError", 91) /\ UNCHANGED covid19_label
    /\ UNCHANGED <<envVars, fs, log, train_ds, val_ds, cwVars, trainVars>>

ClassWeights ==
    /\ pc = "class_weights"
    /\ IF args.class_weights
         THEN LET r == get_class_weights(train_ds)
              IN  /\ gcw_calls' = gcw_calls + 1
                  /\ Call("get_class_weights")
                  /\ IF r.raised
                       THEN Raise(r.value, 59) /\ UNCHANGED class_weights
                       ELSE /\ class_weights' = [tag |-> "dict", map |-> r.value]
                            /\ pc' = "build"
                            /\ UNCHANGED error
         ELSE /\ class_weights' = PyNone
              /\ pc' = "build"
              /\ UNCHANGED <<gcw_calls, log, error>>
    /\ UNCHANGED <<envVars, fs, dsVars, trainVars>>

BuildModel ==
    /\ pc = "build"
    /\ Call("ResNet50")
    /\ \/ /\ model' = [weights |-> [clf |-> 0, ft |-> 0]]
          /\ pc' = "fit_call"
          /\ UNCHANGED error
       \/ Raise("FrameworkError", 95) /\ UNCHANGED model
    /\ UNCHANGED <<envVars, fs, dsVars, cwVars, fit_args, ft_args, cur, history, history_ft>>

(* ------------------------- the training phases ------------------------- *)

Last(s) == s[Len(s)]

TrainBegin(phase, nextpc, a) ==
    /\ Call(phase)
    /\ cur' = <<>>
    /\ pc' = nextpc
    /\ UNCHANGED <<envVars, fs, error, dsVars, cwVars, model, history, history_ft>>

TrainEpoch(phase, a, part) ==
    LET epoch == a.initial_epoch + Len(cur)
        w     == [model.weights EXCEPT ![part] = @ + 1]
    IN  /\ Len(cur) < a.epochs
        /\ cur' = Append(cur, epoch)
        /\ model' = [model EXCEPT !.weights = w]
        /\ fs' = [fs EXCEPT
                    !.entries = @ \cup {"logs"},
                    !.ckpt = WriteFile(@, CheckpointName(epoch),
                                       [phase |-> phase, epoch |-> epoch, weights |-> w])]
        /\ UNCHANGED <<pc, envVars, error, log, dsVars, cwVars, fit_args, ft_args,
                       history, history_ft>>

TrainCompleted(a) == Len(cur) = a.epochs

EarlyStopped == Len(cur) > PATIENCE

TrainEnd(a, part, nextpc) ==
    /\ \/ TrainCompleted(a) /\ UNCHANGED model
       \/ /\ EarlyStopped
          /\ model' = [model EXCEPT !.weights[part] = @ - PATIENCE]
    /\ pc' = nextpc
    /\ UNCHANGED <<envVars, fs, error, log, dsVars, cwVars, fit_args, ft_args, cur>>

TrainFail(line) ==
    /\ Raise("FrameworkError", line)
    /\ UNCHANGED <<envVars, fs, log, dsVars, cwVars, trainVars>>

FitClassifierArgs ==
    [initial_epoch |-> 0, epochs |-> EPOCHS, class_weight |-> class_weights]

FitClassifierCall ==
    /\ pc = "fit_call"
    /\ fit_args' = FitClassifierArgs
    /\ TrainBegin("fit_classifier", "fit_run", FitClassifierArgs)
    /\ UNCHANGED ft_args

FitClassifierEpoch ==
    /\ pc = "fit_run"
    /\ TrainEpoch("fit_classifier", fit_args, "clf")

FitClassifierReturn ==
    /\ pc = "fit_run"
    /\ TrainEnd(fit_args, "clf", "save_no_ft")
    /\ history' = [epoch |-> cur]
    /\ UNCHANGED history_ft

FitClassifierFail ==
    /\ pc = "fit_run"
    /\ TrainFail(101)

SaveWeightsNoFt_Skipped ==
    /\ pc = "save_no_ft"
    /\ pc' = "ft_call"
    /\ UNCHANGED <<envVars, fs, error, log, dsVars, cwVars, trainVars>>

SaveWeightsNoFt ==
    /\ pc = "save_no_ft"
    /\ fs' = [fs EXCEPT !.saved = WriteFile(@, "model_no_ft.h5", model.weights)]
    /\ Call("save_weights_no_ft")
    /\ pc' = "ft_call"
    /\ UNCHANGED <<envVars, error, dsVars, cwVars, trainVars>>

FineTuneInitialEpoch_LastEpoch == Last(history.epoch)

FineTuneInitialEpoch == Last(history.epoch) + 1

FineTuneArgs_NoClassWeights ==
    [initial_epoch |-> FineTuneInitialEpoch, epochs |-> EPOCHS_FT,
     class_weight |-> PyNone]

FineTuneArgs ==
    [initial_epoch |-> FineTuneInitialEpoch, epochs |-> EPOCHS_FT,
     class_weight |-> class_weights]

FineTuneCall ==
    /\ pc = "ft_call"
    /\ ft_args' = FineTuneArgs
    /\ TrainBegin("fine_tune", "ft_run", FineTuneArgs)
    /\ UNCHANGED fit_args

FineTuneEpoch ==
    /\ pc = "ft_run"
    /\ TrainEpoch("fine_tune", ft_args, "ft")

FineTuneReturn ==
    /\ pc = "ft_run"
    /\ TrainEnd(ft_args, "ft", "save_model")
    /\ history_ft' = [epoch |-> cur]
    /\ UNCHANGED history

FineTuneFail ==
    /\ pc = "ft_run"
    /\ TrainFail(103)

SaveWeights ==
    /\ pc = "save_model"
    /\ fs' = [fs EXCEPT !.saved = WriteFile(@, "model.h5", model.weights)]
    /\ Call("save_weights")
    /\ pc' = "plot"
    /\ UNCHANGED <<envVars, error, dsVars, cwVars, trainVars>>

PlotLearningCurves ==
    /\ pc = "plot"
    /\ fs' = [fs EXCEPT !.plots = TRUE]
    /\ Call("plot_learning_curves")
    /\ pc' = "done"
    /\ UNCHANGED <<envVars, error, dsVars, cwVars, trainVars>>

ResetRun ==
    /\ error' = Unset
    /\ log' = <<>>
    /\ train_ds' = Unset
    /\ val_ds' = Unset
    /\ n_classes' = Unset
    /\ covid19_label' = Unset
    /\ class_weights' = Unset
    /\ gcw_calls' = 0
    /\ model' = Unset
    /\ fit_args' = Unset
    /\ ft_args' = Unset
    /\ cur' = <<>>
    /\ history' = Unset
    /\ history_ft' = Unset

(* A later invocation of the script with the same `model` argument. *)
Restart ==
    /\ pc \in {"done", "failed"}
    /\ run < MaxRuns
    /\ run' = run + 1
    /\ args' \in [class_weights : BOOLEAN]
    /\ fs_start' = fs
    /\ prev_error' = error
    /\ pc' = "check"
    /\ ResetRun
    /\ UNCHANGED fs

Next ==
    \/ CheckExists
    \/ MkdirModel
    \/ MkdirSub
    \/ LoadTrain
    \/ LoadVal
    \/ Lookup
    \/ ClassWeights
    \/ BuildModel
    \/ FitClassifierCall
    \/ FitClassifierEpoch
    \/ FitClassifierReturn
    \/ FitClassifierFail
    \/ SaveWeightsNoFt
    \/ FineTuneCall
    \/ FineTuneEpoch
    \/ FineTuneReturn
    \/ FineTuneFail
    \/ SaveWeights
    \/ PlotLearningCurves
    \/ Restart

Spec == Init /\ [][Next]_vars

(* ----------------- get_class_weights on its own inputs ----------------- *)

InitGCW ==
    /\ pc = "gcw_call"
    /\ run = 1
    /\ args = [class_weights |-> TRUE]
    /\ fs = EmptyFs("absent", TRUE)
    /\ fs_start = fs
    /\ prev_error = Unset
    /\ error = Unset
    /\ log = <<>>
    /\ train_ds \in UnitDatasets
    /\ val_ds = Unset
    /\ n_classes = Unset
    /\ covid19_label = Unset
    /\ class_weights = Unset
    /\ gcw_calls = 0
    /\ model = Unset
    /\ fit_args = Unset
    /\ ft_args = Unset
    /\ cur = <<>>
    /\ history = Unset
    /\ history_ft = Unset

GcwCall ==
    /\ pc = "gcw_call"
    /\ LET r == get_class_weights(train_ds)
       IN  /\ gcw_calls' = gcw_calls + 1
           /\ Call("get_class_weights")
           /\ IF r.raised
                THEN /\ pc' = "gcw_raised"
                     /\ error' = [type |-> r.value, line |-> 59]
                     /\ UNCHANGED class_weights
                ELSE /\ class_weights' = [tag |-> "dict", map |-> r.value]
                     /\ pc' = "gcw_returned"
                     /\ UNCHANGED error
    /\ UNCHANGED <<envVars, fs, dsVars, trainVars>>

NextGCW == GcwCall

SpecGCW == InitGCW /\ [][NextGCW]_vars

(* ===================== properties of get_class_weights ================= *)

WeightMap == class_weights.map

Int2Rat(i) == Rat(i, 1)

RECURSIVE WeightedSum(_, _, _)
WeightedSum(ds, w, class_label) ==
    IF class_label >= NClasses(ds) THEN Int2Rat(0)
    ELSE RatAdd(RatMul(Int2Rat(CountOf(ds, class_label)), w[class_label]),
                WeightedSum(ds, w, class_label + 1))

RECURSIVE RelativeWeightedSum(_, _, _)
RelativeWeightedSum(ds, w, class_label) ==
    IF class_label >= NClasses(ds) THEN Int2Rat(0)
    ELSE RatAdd(RatMul(Rat(CountOf(ds, class_label), Total(ds)), w[class_label]),
                RelativeWeightedSum(ds, w, class_label + 1))

AllClassesSampled(ds) == \A l \in Labels(ds) : CountOf(ds, l) >= 1

(* C2: for a training set in which every class has at least one sample,    *)
(* get_class_weights returns (it does not raise) a map with exactly one    *)
(* entry per class label, and the entry of a class with n samples is the   *)
(* rational total / (n * n_classes); on the counts {100, 900} of the       *)
(* documented example the formula gives 5 and 5/9.                         *)
C2_WeightFormula ==
    /\ (pc = "gcw_raised") => ~AllClassesSampled(train_ds)
    /\ (pc = "gcw_returned") =>
          /\ DOMAIN WeightMap = Labels(train_ds)
          /\ \A l \in Labels(train_ds) :
                LET w == WeightMap[l]
                    n == CountOf(train_ds, l)
                IN  /\ w.den > 0
                    /\ w.num * n * NClasses(train_ds) = w.den * Total(train_ds)
    /\ ClassWeight(100, 1000, 2) = [num |-> 5, den |-> 1]
    /\ ClassWeight(900, 1000, 2) = [num |-> 5, den |-> 9]

(* Counts {1, 9}: the documented example {100, 900} scaled down. *)
C2_Witness ==
    /\ pc = "gcw_returned"
    /\ train_ds.classes = <<0, 1, 1, 1, 1, 1, 1, 1, 1, 1>>
    /\ WeightMap[0] = [num |-> 5, den |-> 1]
    /\ WeightMap[1] = [num |-> 5, den |-> 9]

(* C3 as amended: the sum over the classes of sample count times weight is *)
(* the number of training samples, and with relative frequencies           *)
(* (count / total) the sum is 1.                                           *)
C3_WeightedSumIsTotal ==
    (pc = "gcw_returned") =>
        /\ WeightedSum(train_ds, WeightMap, 0) = Int2Rat(Total(train_ds))
        /\ Total(train_ds) > 0 =>
              RelativeWeightedSum(train_ds, WeightMap, 0) = Int2Rat(1)

C3_Witness ==
    /\ pc = "gcw_returned"
    /\ NClasses(train_ds) = 3
    /\ Total(train_ds) > NClasses(train_ds)
    /\ WeightedSum(train_ds, WeightMap, 0) = Int2Rat(Total(train_ds))

(* C3 as stated: the frequency-weighted sum of the weights equals the      *)
(* number of classes, reading "frequency" as the sample count or as the    *)
(* relative frequency count / total.                                       *)
C3_WeightedSumIsNClasses ==
    (pc = "gcw_returned" /\ Total(train_ds) > 0) =>
        \/ WeightedSum(train_ds, WeightMap, 0) = Int2Rat(NClasses(train_ds))
        \/ RelativeWeightedSum(train_ds, WeightMap, 0) = Int2Rat(NClasses(train_ds))

(* C4: the weights are inversely proportional to the class counts: count   *)
(* times weight is the same for every class, and a class with fewer        *)
(* samples never has a smaller weight than a class with more samples.      *)
C4_InverselyProportional ==
    (pc = "gcw_returned") =>
        \A a, b \in Labels(train_ds) :
            /\ RatMul(WeightMap[a], Int2Rat(CountOf(train_ds, a)))
                  = RatMul(WeightMap[b], Int2Rat(CountOf(train_ds, b)))
            /\ CountOf(train_ds, a) < CountOf(train_ds, b)
                  => /\ RatLeq(WeightMap[b], WeightMap[a])
                     /\ WeightMap[a] # WeightMap[b]

C4_Witness ==
    /\ pc = "gcw_returned"
    /\ \E a, b \in Labels(train_ds) :
          /\ CountOf(train_ds, a) < CountOf(train_ds, b)
          /\ WeightMap[a] # WeightMap[b]
          /\ RatLeq(WeightMap[b], WeightMap[a])

(* ========================= properties of main() ======================== *)

InMain == pc \notin {"gcw_call", "gcw_returned", "gcw_raised"}

NothingDone ==
    /\ fs = fs_start
    /\ log = <<>>
    /\ train_ds = Unset
    /\ val_ds = Unset
    /\ class_weights = Unset
    /\ model = Unset
    /\ fit_args = Unset
    /\ ft_args = Unset
    /\ history = Unset
    /\ history_ft = Unset

(* C1: when the `model` path is a directory (or a link to one) at          *)
(* start-up, the invocation ends with the FileExistsError raised by main's *)
(* own check (line 77) and nothing is done: the filesystem is as it was,   *)
(* no dataset is loaded, no model is built, no training phase is called.   *)
C1_ExistingDirFailsFast ==
    (InMain /\ fs_start.kind \in {"dir", "link_dir"}) =>
        /\ pc \in {"check", "failed"}
        /\ (pc = "failed") => error = [type |-> "FileExistsError", line |-> 77]
        /\ NothingDone

C1_Witness ==
    /\ pc = "failed"
    /\ run = 1
    /\ fs_start.kind = "dir"
    /\ error = [type |-> "FileExistsError", line |-> 77]

(* C7: when anything exists at the `model` path at start-up, the           *)
(* invocation ends with FileExistsError and the filesystem is left as it   *)
(* was; for a directory the error is the one of main's check (line 77),    *)
(* for a regular file it is the one of mkdir (line 78).                    *)
C7_ExistingPathFails ==
    (InMain /\ fs_start.kind # "absent") =>
        /\ pc \in {"check", "mkdir", "failed"}
        /\ NothingDone
        /\ (pc = "failed") =>
              /\ error.type = "FileExistsError"
              /\ (fs_start.kind = "dir") => error.line = 77
              /\ (fs_start.kind = "file") => error.line = 78

C7_Witness ==
    /\ pc = "failed"
    /\ run = 1
    /\ fs_start.kind = "file"
    /\ error = [type |-> "FileExistsError", line |-> 78]

FailedAfterCheck(e) == e # Unset /\ e.line > 78

OutputDirsExist ==
    /\ fs.kind = "dir"
    /\ {"checkpoints", "training"} \subseteq fs.entries

(* C8: the output directory and its checkpoints/ and training/             *)
(* subdirectories exist before the first dataset split is loaded; after a  *)
(* failure past the existence check they are still there; and the          *)
(* invocation that follows such a failure ends with the FileExistsError of *)
(* line 77 without doing anything.                                         *)
C8_FailureLeavesOutputDir ==
    InMain =>
        /\ (Len(log) >= 3) =>
              /\ SubSeq(log, 1, 3) = <<"mkdir", "mkdir_sub", "load_train">>
              /\ OutputDirsExist
        /\ FailedAfterCheck(error) => (pc = "failed" /\ OutputDirsExist)
        /\ FailedAfterCheck(prev_error) =>
              /\ pc \in {"check", "failed"}
              /\ (pc = "failed") => error = [type |-> "FileExistsError", line |-> 77]
              /\ NothingDone
              /\ OutputDirsExist

C8_Witness ==
    /\ pc = "failed"
    /\ run = 2
    /\ FailedAfterCheck(prev_error)
    /\ prev_error.line = 103
    /\ error = [type |-> "FileExistsError", line |-> 77]
    /\ "model_no_ft.h5" \in DOMAIN fs.saved

Steps ==
    <<"fit_classifier", "save_weights_no_ft", "fine_tune", "save_weights",
      "plot_learning_curves">>

IsStep(e) == \E i \in DOMAIN Steps : Steps[i] = e

StepsDone == SelectSeq(log, IsStep)

Written(name) ==
    /\ name \in DOMAIN fs.saved
    /\ name \notin DOMAIN fs_start.saved

(* C5: the five steps happen in the order fit_classifier, save of          *)
(* model_no_ft.h5, fine_tune, save of model.h5, plot_learning_curves, each *)
(* at most once, and all of them in an invocation that completes;          *)
(* model_no_ft.h5 holds weights without any fine-tuning epoch; model.h5 is *)
(* written only once fine_tune has returned, and not when it failed.       *)
C5_StepOrder ==
    InMain =>
        /\ Len(StepsDone) <= Len(Steps)
        /\ StepsDone = SubSeq(Steps, 1, Len(StepsDone))
        /\ (pc = "done") => StepsDone = Steps
        /\ Written("model_no_ft.h5") =>
              /\ history # Unset
              /\ fs.saved["model_no_ft.h5"].ft = 0
              /\ fs.saved["model_no_ft.h5"].clf >= 1
        /\ Written("model.h5") =>
              /\ history_ft # Unset
              /\ Written("model_no_ft.h5")
              /\ fs.saved["model.h5"] = model.weights
              /\ fs.saved["model.h5"].ft >= 1
        /\ (error # Unset /\ error.line = 103) => ~Written("model.h5")
        /\ (fs.plots /\ ~fs_start.plots) => Written("model.h5")

C5_Witness ==
    /\ pc = "done"
    /\ StepsDone = Steps
    /\ Written("model.h5")
    /\ fs.saved["model_no_ft.h5"] # fs.saved["model.h5"]

(* C6: with --class-weights get_class_weights is called once, on the       *)
(* training split, and its result is passed to fit_classifier and to       *)
(* fine_tune; without the flag it is not called and both get None.         *)
C6_ClassWeightsIffFlag ==
    InMain =>
        /\ gcw_calls <= 1
        /\ ~args.class_weights => gcw_calls = 0
        /\ (fit_args # Unset) =>
              IF args.class_weights
                THEN /\ gcw_calls = 1
                     /\ fit_args.class_weight =
                            [tag |-> "dict", map |-> get_class_weights(train_ds).value]
                ELSE fit_args.class_weight = PyNone
        /\ (ft_args # Unset) =>
              /\ fit_args # Unset
              /\ ft_args.class_weight = fit_args.class_weight

C6_Witness ==
    /\ ft_args # Unset
    /\ args.class_weights
    /\ ft_args.class_weight.tag = "dict"
    /\ train_ds.classes # val_ds.classes

Range(seq) == {seq[i] : i \in DOMAIN seq}

ClassifierEpochs ==
    IF history # Unset THEN Range(history.epoch)
    ELSE IF pc = "fit_run" THEN Range(cur) ELSE {}

FineTuneEpochs ==
    IF history_ft # Unset THEN Range(history_ft.epoch)
    ELSE IF pc = "ft_run" THEN Range(cur) ELSE {}

(* C9: fit_classifier is started at epoch 0 and fine_tune at the last      *)
(* epoch of the classifier phase plus one; every fine-tuning epoch is      *)
(* greater than every classifier epoch, and the checkpoint file of every   *)
(* classifier epoch is still the one the classifier phase wrote.           *)
C9_FineTuneContinuesEpochs ==
    InMain =>
        /\ (fit_args # Unset) => fit_args.initial_epoch = 0
        /\ (ft_args # Unset) =>
              /\ history # Unset
              /\ ft_args.initial_epoch = history.epoch[Len(history.epoch)] + 1
        /\ \A a \in ClassifierEpochs : \A b \in FineTuneEpochs : a < b
        /\ \A a \in ClassifierEpochs :
              /\ CheckpointName(a) \in DOMAIN fs.ckpt
              /\ fs.ckpt[CheckpointName(a)].phase = "fit_classifier"
              /\ fs.ckpt[CheckpointName(a)].epoch = a
        /\ \A b \in FineTuneEpochs :
              /\ CheckpointName(b) \in DOMAIN fs.ckpt
              /\ fs.ckpt[CheckpointName(b)].phase = "fine_tune"

C9_Witness ==
    /\ pc = "ft_run"
    /\ Len(history.epoch) < EPOCHS
    /\ Len(cur) >= 2
    /\ cur[1] = Len(history.epoch)

(* C10: get_class_weights returns a map, with a weight > 0 for every       *)
(* class, exactly when every class has a sample; otherwise it raises       *)
(* ZeroDivisionError, and in main() that happens with the output           *)
(* directories in place and before the model is built or trained.          *)
C10_ZeroSampleClass ==
    InMain =>
        /\ (class_weights # Unset /\ class_weights # PyNone) =>
              /\ AllClassesSampled(train_ds)
              /\ DOMAIN WeightMap = Labels(train_ds)
              /\ \A l \in Labels(train_ds) :
                    WeightMap[l].num > 0 /\ WeightMap[l].den > 0
        /\ (error # Unset /\ error.line = 59) =>
              /\ error.type = ZeroDivisionError
              /\ args.class_weights
              /\ ~AllClassesSampled(train_ds)
              /\ class_weights = Unset
              /\ OutputDirsExist
              /\ model = Unset
              /\ fit_args = Unset
              /\ ft_args = Unset
        /\ (args.class_weights /\ train_ds # Unset /\ ~AllClassesSampled(train_ds)) =>
              /\ pc \in {"load_val", "lookup", "class_weights", "failed"}
              /\ model = Unset

C10_Witness ==
    /\ pc = "failed"
    /\ error = [type |-> ZeroDivisionError, line |-> 59]
    /\ CountOf(train_ds, covid19_label) > 0

====
